---- MODULE Spec2Model ----
(***************************************************************************)
(* Model of the attendance-sheet converter (client/src/pages/Home.tsx and  *)
(* shared/schema.ts): the POST /api/convert handler with                   *)
(* extractMonthFromSheetName, extractCompanyName, parseAttendanceSheet and *)
(* createOutputWorkbook.                                                   *)
(*                                                                         *)
(* Text is a sequence of one-character strings.  A Hangul syllable is      *)
(* written as the romanised name of the syllable, one string per           *)
(* syllable: "seong","byeol" is the header label of the gender column,     *)
(* "nam" / "yeo" are the two genders, "wol" is the month marker and        *)
(* "nyeon" the year marker.  Numbers are fixed point: the JavaScript       *)
(* number x is the integer x * Scale.                                      *)
(***************************************************************************)
EXTENDS Integers, Sequences, FiniteSets, TLC

VARIABLES
  req,              \* the request: file present, load result, sheet name, file name
  now,              \* the system clock read by extractMonthFromSheetName
  sheet,            \* the worksheet: a sequence of rows, each a sequence of cells
  pc,               \* position in the handler
  period,           \* { year, month } of extractMonthFromSheetName
  companyName,      \* result of extractCompanyName
  genderColIndex, nameColIndex, categoryColIndex, headerRowIndex,
  rowNum,           \* loop variable of the three row loops
  dateHeaders,      \* { col, day }[]
  workers,          \* Map<string, WorkerData>, in insertion order
  currentGender, currentName, workerOrder,
  attributed,       \* history: per data row scanned, the current gender and name and
                    \* the worker (key, place in the map) it was added to, if any
  tempRows,         \* TempRow[]
  rows,             \* AttendanceRow[] returned by parseAttendanceSheet
  response,         \* what the handler sent
  \* the state of the Home component
  file, sheets, selectedSheet, step, isLoading, error, successMessage, isDragging,
  progress,
  sheetsRequest,    \* the fetch of /api/sheets made by processFile, while it is pending
  convertRequest,   \* the fetch of /api/convert made by handleConvert, while it is pending
  timers,           \* the number of intervals set by handleConvert and not cleared
  conversions,      \* history: the number of calls of handleConvert that passed its guard
  \* calls of the pure functions
  priceArg,         \* an AttendanceRow handed to the pricing of lines 840-849
  priced,           \* what the pricing computed for it
  holidayArg,       \* { year, month } handed to getKoreanHolidays
  holidayDays       \* the array it returned

handlerVars == <<req, now, sheet, pc, period, companyName, genderColIndex, nameColIndex,
                 categoryColIndex, headerRowIndex, rowNum, dateHeaders, workers,
                 currentGender, currentName, workerOrder, attributed, tempRows, rows,
                 response>>

homeVars == <<file, sheets, selectedSheet, step, isLoading, error, successMessage,
              isDragging, progress, sheetsRequest, convertRequest, timers, conversions>>

callVars == <<priceArg, priced, holidayArg, holidayDays>>

vars == <<handlerVars, homeVars, callVars>>

-----------------------------------------------------------------------------
(* Numbers and text *)

Scale == 10000

Num(x) == x * Scale

Min(a, b) == IF a < b THEN a ELSE b

Digit == {"0", "1", "2", "3", "4", "5", "6", "7", "8", "9"}

DigitVal(c) ==
  CASE c = "0" -> 0 [] c = "1" -> 1 [] c = "2" -> 2 [] c = "3" -> 3 [] c = "4" -> 4
    [] c = "5" -> 5 [] c = "6" -> 6 [] c = "7" -> 7 [] c = "8" -> 8 [] c = "9" -> 9

DigitChar(d) == <<"0", "1", "2", "3", "4", "5", "6", "7", "8", "9">>[d + 1]

\* Hangul syllables (U+AC00..U+D7AF) that occur in the model's texts.
Hangul == {"seong", "byeol", "myeong", "i", "reum", "gu", "bun", "gi", "bon",
           "yeon", "jang", "ju", "teuk", "hyu", "nam", "yeo", "nyeon", "wol",
           "han", "gyeol", "gim", "gye", "hwi"}

IsSpace(c) == c = " "

RECURSIVE TrimStart(_)
TrimStart(s) == IF s # <<>> /\ IsSpace(Head(s)) THEN TrimStart(Tail(s)) ELSE s

RECURSIVE TrimEnd(_)
TrimEnd(s) ==
  IF s # <<>> /\ IsSpace(s[Len(s)]) THEN TrimEnd(SubSeq(s, 1, Len(s) - 1)) ELSE s

\* String.prototype.trim
Trim(s) == TrimEnd(TrimStart(s))

\* decimal digits of a natural number, no leading zero
RECURSIVE NatToString(_)
NatToString(n) ==
  IF n < 10 THEN <<DigitChar(n)>> ELSE NatToString(n \div 10) \o <<DigitChar(n % 10)>>

\* parseInt of a text of decimal digits
RECURSIVE ParseDigits(_, _)
ParseDigits(s, acc) ==
  IF s = <<>> THEN acc ELSE ParseDigits(Tail(s), acc * 10 + DigitVal(Head(s)))

ParseInt(s) == ParseDigits(s, 0)

\* the fraction digits of a fixed-point fraction f (0 <= f < unit), trailing zeros dropped
RECURSIVE FracToString(_, _)
FracToString(f, unit) ==
  IF f = 0 THEN <<>>
  ELSE <<DigitChar((f * 10) \div unit)>> \o FracToString((f * 10) % unit, unit)

\* String(x) of a number
NumberToString(x) ==
  LET a == IF x < 0 THEN -x ELSE x
      body == NatToString(a \div Scale) \o
              (IF a % Scale = 0 THEN <<>> ELSE <<".">> \o FracToString(a % Scale, Scale))
  IN  IF x < 0 THEN <<"-">> \o body ELSE body

\* the longest prefix of s made of digits
RECURSIVE DigitPrefix(_)
DigitPrefix(s) ==
  IF s # <<>> /\ Head(s) \in Digit THEN <<Head(s)>> \o DigitPrefix(Tail(s)) ELSE <<>>

\* value of fraction digits, in units of 1/Scale (digits beyond the scale are cut)
RECURSIVE FracValue(_, _)
FracValue(s, unit) ==
  IF s = <<>> \/ unit = 0 THEN 0
  ELSE DigitVal(Head(s)) * unit + FracValue(Tail(s), unit \div 10)

NaN == [nan |-> TRUE, v |-> 0]

Finite(x) == [nan |-> FALSE, v |-> x]

\* parseFloat: leading white space, optional sign, digits, optional fraction;
\* NaN when no number starts the text
ParseFloat(text) ==
  LET s    == TrimStart(text)
      neg  == s # <<>> /\ Head(s) = "-"
      u    == IF s # <<>> /\ Head(s) \in {"-", "+"} THEN Tail(s) ELSE s
      ip   == DigitPrefix(u)
      r    == SubSeq(u, Len(ip) + 1, Len(u))
      fp   == IF r # <<>> /\ Head(r) = "." THEN DigitPrefix(Tail(r)) ELSE <<>>
      mag  == ParseInt(ip) * Scale + FracValue(fp, Scale \div 10)
  IN  IF ip = <<>> /\ fp = <<>> THEN NaN ELSE IF neg THEN Finite(-mag) ELSE Finite(mag)

-----------------------------------------------------------------------------
(* Cells: ExcelJS cell values *)

Empty    == [k |-> "empty", n |-> 0, s |-> <<>>]
NumCell(x)  == [k |-> "num",  n |-> x, s |-> <<>>]       \* x is fixed point
Txt(s)   == [k |-> "str",  n |-> 0, s |-> s]
DateCell(d) == [k |-> "date", n |-> d, s |-> <<>>]       \* a Date; d = getDate()
Rich(s)  == [k |-> "rich", n |-> 0, s |-> s]             \* { richText }; s = joined text

RowCount == Len(sheet)

\* worksheet.getRow(r).getCell(c).value
Cell(r, c) ==
  IF r \in 1..Len(sheet) /\ c \in 1..Len(sheet[r]) THEN sheet[r][c] ELSE Empty

\* String(date): weekday, month, day, year, time; the words are one token each
DateToString(d) == <<"Mon", " ", "Jan", " ">> \o NatToString(d) \o <<" ", "2", "0", "2", "4">>

\* String(cell.value || '')
ValueString(c) ==
  CASE c.k = "empty" -> <<>>
    [] c.k = "num"   -> IF c.n = 0 THEN <<>> ELSE NumberToString(c.n)
    [] c.k = "str"   -> c.s
    [] c.k = "date"  -> DateToString(c.n)
    [] c.k = "rich"  -> <<"[object Object]">>

\* String(cell.value || '').trim()
CellText(c) == Trim(ValueString(c))

-----------------------------------------------------------------------------
(* extractMonthFromSheetName *)

\* sentinels: no text / no match object / an exception
NoMatch == <<"NoMatch">>

NoGroups == [alt |-> 0, year |-> <<>>, month |-> <<>>]

At(s, i) == IF i \in 1..Len(s) THEN s[i] ELSE "end"

AllDigits(s, p, n) == \A i \in p..(p + n - 1) : At(s, i) \in Digit

\* the first index at or after q that holds no white space
RECURSIVE SkipSpaces(_, _)
SkipSpaces(s, q) == IF IsSpace(At(s, q)) THEN SkipSpaces(s, q + 1) ELSE q

\* (\d{1,2})wol at q: the captured digits, two digits tried before one
MonthAt(s, q) ==
  IF AllDigits(s, q, 2) /\ At(s, q + 2) = "wol" THEN SubSeq(s, q, q + 1)
  ELSE IF AllDigits(s, q, 1) /\ At(s, q + 1) = "wol" THEN SubSeq(s, q, q)
  ELSE NoMatch

\* (\d{2})(\d{2})wol at p
YYMMAt(s, p) ==
  IF AllDigits(s, p, 4) /\ At(s, p + 4) = "wol"
  THEN [alt |-> 1, year |-> SubSeq(s, p, p + 1), month |-> SubSeq(s, p + 2, p + 3)]
  ELSE NoGroups

\* (\d{2})nyeon\s*(\d{1,2})wol at p
YYNyeonAt(s, p) ==
  IF AllDigits(s, p, 2) /\ At(s, p + 2) = "nyeon" /\ MonthAt(s, SkipSpaces(s, p + 3)) # NoMatch
  THEN [alt |-> 2, year |-> SubSeq(s, p, p + 1), month |-> MonthAt(s, SkipSpaces(s, p + 3))]
  ELSE NoGroups

\* (\d{4})nyeon?\s*(\d{1,2})wol at p
YYYYAt(s, p) ==
  LET q == SkipSpaces(s, IF At(s, p + 4) = "nyeon" THEN p + 5 ELSE p + 4)
  IN  IF AllDigits(s, p, 4) /\ MonthAt(s, q) # NoMatch
      THEN [alt |-> 3, year |-> SubSeq(s, p, p + 3), month |-> MonthAt(s, q)]
      ELSE NoGroups

\* the three alternatives at one position, in the order the expression lists them
MonthMatchAt(s, p) ==
  IF YYMMAt(s, p) # NoGroups THEN YYMMAt(s, p)
  ELSE IF YYNyeonAt(s, p) # NoGroups THEN YYNyeonAt(s, p)
  ELSE YYYYAt(s, p)

\* sheetName.match(/(\d{2})(\d{2})wol|(\d{2})nyeon\s*(\d{1,2})wol|(\d{4})nyeon?\s*(\d{1,2})wol/):
\* the match at the leftmost position where one of the alternatives matches
RECURSIVE MonthMatchFrom(_, _)
MonthMatchFrom(s, p) ==
  IF p > Len(s) THEN NoGroups
  ELSE IF MonthMatchAt(s, p) # NoGroups THEN MonthMatchAt(s, p)
  ELSE MonthMatchFrom(s, p + 1)

MonthMatch(s) == MonthMatchFrom(s, 1)

\* sheetName.match(/(\d{1,2})wol/)
RECURSIVE SimpleMonthFrom(_, _)
SimpleMonthFrom(s, p) ==
  IF p > Len(s) THEN NoMatch
  ELSE IF MonthAt(s, p) # NoMatch THEN MonthAt(s, p)
  ELSE SimpleMonthFrom(s, p + 1)

SimpleMonthMatch(s) == SimpleMonthFrom(s, 1)

\* str.padStart(2, '0')
RECURSIVE PadStart2(_)
PadStart2(s) == IF Len(s) < 2 THEN PadStart2(<<"0">> \o s) ELSE s

\* str.slice(-2)
Last2(s) == IF Len(s) <= 2 THEN s ELSE SubSeq(s, Len(s) - 1, Len(s))

extractMonthFromSheetName(sheetName, clock) ==
  LET monthMatch == MonthMatch(sheetName)
      simpleMatch == SimpleMonthMatch(sheetName)
  IN  IF monthMatch # NoGroups
      THEN IF monthMatch.alt = 1
             THEN [year |-> monthMatch.year, month |-> PadStart2(monthMatch.month)]
           ELSE IF monthMatch.alt = 2
             THEN [year |-> monthMatch.year, month |-> PadStart2(monthMatch.month)]
           ELSE [year |-> Last2(monthMatch.year), month |-> PadStart2(monthMatch.month)]
      ELSE IF simpleMatch # NoMatch
      THEN [year |-> Last2(NatToString(clock.year)), month |-> PadStart2(simpleMatch)]
      ELSE [year |-> Last2(NatToString(clock.year)),
            month |-> PadStart2(NatToString(clock.month))]

-----------------------------------------------------------------------------
(* extractCompanyName *)

\* Characters of a file name: ASCII characters that escape() leaves alone,
\* Latin-1 characters above U+007F (multer hands the bytes of a UTF-8 name over
\* as such characters), and characters above U+00FF.
AsciiChar == Digit \cup {"A", "B", "x", "_", ".", "-"}
HighByte  == {"xED", "x95", "x9C"}          \* U+00ED, U+0095, U+009C

Threw == <<"Threw">>

\* UTF-8: ED 95 9C is U+D55C (han), ED 95 95 is U+D555 (pit); a lead byte ED takes
\* two continuation bytes 80..9F
Utf8Char(b2, b3) ==
  CASE b2 = "x95" /\ b3 = "x9C" -> "han"
    [] b2 = "x95" /\ b3 = "x95" -> "pit"
    [] b2 = "x9C" /\ b3 = "x95" -> "hwit"
    [] b2 = "x9C" /\ b3 = "x9C" -> "hwin"

Continuation == {"x95", "x9C"}

\* decodeURIComponent(escape(s)): escape writes a Latin-1 character as %XX and a
\* character above U+00FF as %uXXXX, which decodeURIComponent rejects; the %XX
\* run is decoded as UTF-8 and rejected when it is not well formed
RECURSIVE DecodeEscaped(_)
DecodeEscaped(s) ==
  IF s = <<>> THEN <<>>
  ELSE IF Head(s) \in AsciiChar
    THEN LET rest == DecodeEscaped(Tail(s))
         IN  IF rest = Threw THEN Threw ELSE <<Head(s)>> \o rest
  ELSE IF Head(s) = "xED" /\ Len(s) >= 3 /\ s[2] \in Continuation /\ s[3] \in Continuation
    THEN LET rest == DecodeEscaped(SubSeq(s, 4, Len(s)))
         IN  IF rest = Threw THEN Threw ELSE <<Utf8Char(s[2], s[3])>> \o rest
  ELSE Threw

\* the index of the first "_" of s, 0 when there is none
RECURSIVE FirstUnderscore(_, _)
FirstUnderscore(s, i) ==
  IF i > Len(s) THEN 0 ELSE IF s[i] = "_" THEN i ELSE FirstUnderscore(s, i + 1)

\* s.match(/^([^_]+)_/): the captured prefix
PrefixMatch(s) ==
  IF FirstUnderscore(s, 1) > 1 THEN SubSeq(s, 1, FirstUnderscore(s, 1) - 1) ELSE NoMatch

HangulSyllable == Hangul \cup {"pit", "hwit", "hwin"}

\* /^[가-힯]+$/.test(s)
IsHangulText(s) == s # <<>> /\ \A i \in 1..Len(s) : s[i] \in HangulSyllable

DefaultCompany == <<"han", "gyeol">>

extractCompanyName(filename) ==
  LET decoded == DecodeEscaped(filename)
  IN  IF decoded # Threw /\ PrefixMatch(decoded) # NoMatch
      THEN PrefixMatch(decoded)
      ELSE IF PrefixMatch(filename) # NoMatch /\ IsHangulText(PrefixMatch(filename))
      THEN PrefixMatch(filename)
      ELSE DefaultCompany

-----------------------------------------------------------------------------
(* parseAttendanceSheet: header detection *)

GenderLabel   == <<"seong", "byeol">>
NameLabels    == {<<"seong", "myeong">>, <<"i", "reum">>}
CategoryLabel == <<"gu", "bun">>

NotFound == -1

HeaderScanLimit == 15
DateScanLimit   == 10
DateColSpan     == 35
DateHeaderStop  == 10

\* the callback of row.eachCell in the header loop, for one cell
HeaderCell(st, value, colNumber, r) ==
  IF value = GenderLabel THEN [st EXCEPT !.gender = colNumber, !.header = r]
  ELSE IF value \in NameLabels THEN [st EXCEPT !.name = colNumber]
  ELSE IF value = CategoryLabel THEN [st EXCEPT !.category = colNumber]
  ELSE st

\* row.eachCell: the cells of row r that hold a value, from column c on, left to right
RECURSIVE HeaderScanCells(_, _, _)
HeaderScanCells(st, r, c) ==
  IF c > Len(sheet[r]) THEN st
  ELSE IF sheet[r][c].k = "empty" THEN HeaderScanCells(st, r, c + 1)
  ELSE HeaderScanCells(HeaderCell(st, CellText(sheet[r][c]), c, r), r, c + 1)

HeaderState ==
  [gender |-> genderColIndex, name |-> nameColIndex, category |-> categoryColIndex,
   header |-> headerRowIndex]

AllFound(st) == st.gender > 0 /\ st.name > 0 /\ st.category > 0

\* a variant that leaves an index that was not found as it is
KeepIndex(index, default) == index

DefaultIfNotFound(index, default) == IF index = NotFound THEN default ELSE index

-----------------------------------------------------------------------------
(* parseAttendanceSheet: date columns *)

HasCol(dh, colNumber) == \E i \in 1..Len(dh) : dh[i].col = colNumber

\* (a variant without the check for a header of the column)
PushAlways(dh, colNumber, day) == Append(dh, [col |-> colNumber, day |-> day])

\* if (!dateHeaders.some(h => h.col === colNumber)) dateHeaders.push({ col, day })
PushOnce(dh, colNumber, day) ==
  IF HasCol(dh, colNumber) THEN dh ELSE Append(dh, [col |-> colNumber, day |-> day])

\* the text the date patterns are tried on
DateCellValue(c) ==
  CASE c.k = "rich" -> c.s
    [] c.k = "date" -> <<"[", "D", "a", "t", "e", ":">> \o NatToString(c.n) \o <<"]">>
    [] OTHER        -> CellText(c)

\* value.match(/(\d{1,2})\/(\d{1,2})/): the index of the "/" of the leftmost match, 0 if none
RECURSIVE SlashMatch(_, _)
SlashMatch(s, i) ==
  IF i > Len(s) THEN 0
  ELSE IF s[i] = "/" /\ At(s, i - 1) \in Digit /\ At(s, i + 1) \in Digit THEN i
  ELSE SlashMatch(s, i + 1)

\* the second group of that match: one or two digits after the "/"
SlashDay(s, i) ==
  IF At(s, i + 2) \in Digit THEN SubSeq(s, i + 1, i + 2) ELSE SubSeq(s, i + 1, i + 1)

\* value.match(/^(\d{1,2})$/)
IsBareDay(s) == Len(s) \in {1, 2} /\ \A i \in 1..Len(s) : s[i] \in Digit

DayInRange(day) == day >= 1 /\ day <= 31

\* the callback of row.eachCell in the date loop, for one cell
DateCellStep(dh, c, colNumber, catCol) ==
  IF ~(colNumber > catCol /\ colNumber <= catCol + DateColSpan) THEN dh
  ELSE
    LET dh1   == IF c.k = "date" THEN PushOnce(dh, colNumber, c.n) ELSE dh
        value == DateCellValue(c)
        slash == SlashMatch(value, 1)
    IN  IF slash # 0 THEN PushOnce(dh1, colNumber, ParseInt(SlashDay(value, slash)))
        ELSE IF IsBareDay(value) /\ DayInRange(ParseInt(value))
             THEN PushOnce(dh1, colNumber, ParseInt(value))
        ELSE dh1

RECURSIVE DateScanCells(_, _, _, _)
DateScanCells(dh, r, c, catCol) ==
  IF c > Len(sheet[r]) THEN dh
  ELSE IF sheet[r][c].k = "empty" THEN DateScanCells(dh, r, c + 1, catCol)
  ELSE DateScanCells(DateCellStep(dh, sheet[r][c], c, catCol), r, c + 1, catCol)

\* dateHeaders.sort((a, b) => a.col - b.col): Array.prototype.sort is stable
RECURSIVE InsertByCol(_, _)
InsertByCol(sorted, h) ==
  IF sorted = <<>> THEN <<h>>
  ELSE IF sorted[Len(sorted)].col - h.col <= 0 THEN Append(sorted, h)
  ELSE Append(InsertByCol(SubSeq(sorted, 1, Len(sorted) - 1), h), sorted[Len(sorted)])

RECURSIVE SortByCol(_)
SortByCol(dh) ==
  IF dh = <<>> THEN <<>>
  ELSE InsertByCol(SortByCol(SubSeq(dh, 1, Len(dh) - 1)), dh[Len(dh)])

-----------------------------------------------------------------------------
(* parseAttendanceSheet: the data rows *)

Male   == <<"nam">>
Female == <<"yeo">>

Basic          == <<"gi", "bon">>
Overtime       == <<"yeon", "jang">>
WeekendSpecial == <<"ju", "teuk">>
WeeklyHoliday  == <<"ju", "hyu">>
Categories     == {Basic, Overtime, WeekendSpecial, WeeklyHoliday}

CanonicalHours == {8 * Scale, 6 * Scale, (5 * Scale) \div 2, 1 * Scale}

\* Map<number, number> as its entries in insertion order
MapHas(m, key) == \E i \in 1..Len(m) : m[i].day = key

MapGet(m, key) == m[CHOOSE i \in 1..Len(m) : m[i].day = key].hours

\* map.get(key) || 0
MapGetOr0(m, key) == IF MapHas(m, key) THEN MapGet(m, key) ELSE 0

\* map.set(key, value): a key already present keeps its place
MapSet(m, key, value) ==
  IF MapHas(m, key)
  THEN [i \in 1..Len(m) |-> IF m[i].day = key THEN [day |-> key, hours |-> value] ELSE m[i]]
  ELSE Append(m, [day |-> key, hours |-> value])

\* `${currentGender}-${currentName}`
\* (a variant that keys a worker by the name alone)
WorkerKeyOfName(gender, name) == name

\* `${currentGender}-${currentName}`
WorkerKey(gender, name) == gender \o <<"-">> \o name

WorkerIndex(ws, key) ==
  IF \E i \in 1..Len(ws) : ws[i].key = key
  THEN CHOOSE i \in 1..Len(ws) : ws[i].key = key
  ELSE 0

NewWorker(gender, name, order) ==
  [key |-> WorkerKey(gender, name), gender |-> gender, name |-> name, order |-> order,
   basicHours |-> <<>>, overtimeHours |-> <<>>, weekendSpecialHours |-> <<>>,
   weeklyHolidayHours |-> <<>>]

\* the forward fill of lines 688-693
NextGender(gender, genderValue) ==
  IF genderValue = Male \/ genderValue = Female THEN genderValue ELSE gender

\* (a variant without the carry-over of the name: the name cell of the row itself)
NextNameOfRowOnly(name, nameValue) == nameValue

\* (a variant in which a name cell never replaces the name carried forward)
NextNameKept(name, nameValue) == name

NextName(name, nameValue) == IF nameValue # <<>> THEN nameValue ELSE name

\* the number read from an hours cell (0 when the cell is skipped)
HoursValue(c) ==
  IF c.k = "empty" \/ (c.k = "str" /\ c.s = <<>>) THEN 0
  ELSE IF c.k = "num" THEN c.n
  ELSE IF c.k = "str"
       THEN (IF ParseFloat(c.s).nan THEN 0 ELSE ParseFloat(c.s).v)
  ELSE 0

\* (a variant without the check of the basic hours)
IsCanonicalAnyHours(numValue) == TRUE

IsCanonical(numValue) == numValue \in CanonicalHours

\* the body of the loop over dateHeaders for one header
StoreHours(w, categoryValue, day, numValue) ==
  IF ~(numValue > 0) THEN w
  ELSE IF categoryValue = Basic
    THEN IF IsCanonical(numValue)
         THEN [w EXCEPT !.basicHours = MapSet(@, day, numValue)]
         ELSE w
  ELSE IF categoryValue = Overtime
    THEN [w EXCEPT !.overtimeHours = MapSet(@, day, numValue)]
  ELSE IF categoryValue = WeekendSpecial
    THEN [w EXCEPT !.weekendSpecialHours = MapSet(@, day, numValue)]
  ELSE IF categoryValue = WeeklyHoliday
    THEN [w EXCEPT !.weeklyHolidayHours = MapSet(@, day, numValue)]
  ELSE w

RECURSIVE AccumulateRow(_, _, _, _, _)
AccumulateRow(w, r, categoryValue, dh, i) ==
  IF i > Len(dh) THEN w
  ELSE AccumulateRow(StoreHours(w, categoryValue, dh[i].day, HoursValue(Cell(r, dh[i].col))),
                     r, categoryValue, dh, i + 1)

\* if (!currentName || currentName === '') continue;
\* if (!['gibon', 'yeonjang', 'juteuk', 'juhyu'].includes(categoryValue)) continue;
RowSkipped(name, categoryValue) == name = <<>> \/ categoryValue \notin Categories

-----------------------------------------------------------------------------
(* parseAttendanceSheet: the rows *)

\* (a variant that collects the days in an array: a day is added once per map)
RECURSIVE AddDaysToArray(_, _, _)
AddDaysToArray(days, m, i) ==
  IF i > Len(m) THEN days ELSE AddDaysToArray(Append(days, m[i].day), m, i + 1)

\* a Set<number> filled from the keys of a map, in insertion order
RECURSIVE AddDays(_, _, _)
AddDays(days, m, i) ==
  IF i > Len(m) THEN days
  ELSE AddDays(IF \E j \in 1..Len(days) : days[j] = m[i].day THEN days
               ELSE Append(days, m[i].day), m, i + 1)

AllDays(w) ==
  AddDays(AddDays(AddDays(<<>>, w.basicHours, 1), w.weekendSpecialHours, 1),
          w.weeklyHolidayHours, 1)

Emits(basicHours, weekendSpecialHours, weeklyHolidayHours) ==
  basicHours > 0 \/ weekendSpecialHours > 0 \/ weeklyHolidayHours > 0

TempRow(w, day) ==
  [gender |-> w.gender, name |-> w.name, date |-> NatToString(day),
   basicHours |-> MapGetOr0(w.basicHours, day),
   overtimeHours |-> MapGetOr0(w.overtimeHours, day),
   weekendSpecialHours |-> MapGetOr0(w.weekendSpecialHours, day),
   weeklyHolidayHours |-> MapGetOr0(w.weeklyHolidayHours, day),
   workerOrder |-> w.order]

RECURSIVE WorkerRows(_, _, _)
WorkerRows(w, days, i) ==
  IF i > Len(days) THEN <<>>
  ELSE (IF Emits(MapGetOr0(w.basicHours, days[i]), MapGetOr0(w.weekendSpecialHours, days[i]),
                 MapGetOr0(w.weeklyHolidayHours, days[i]))
        THEN <<TempRow(w, days[i])>> ELSE <<>>) \o WorkerRows(w, days, i + 1)

\* workers.forEach(...)
RECURSIVE Flatten(_, _)
Flatten(ws, i) ==
  IF i > Len(ws) THEN <<>>
  ELSE WorkerRows(ws[i], AllDays(ws[i]), 1) \o Flatten(ws, i + 1)

\* (a variant of the comparator that orders by worker before day)
CompareRowsWorkerFirst(a, b) ==
  IF a.workerOrder # b.workerOrder THEN a.workerOrder - b.workerOrder
  ELSE ParseInt(a.date) - ParseInt(b.date)

\* the comparator of tempRows.sort
CompareRows(a, b) ==
  IF ParseInt(a.date) # ParseInt(b.date) THEN ParseInt(a.date) - ParseInt(b.date)
  ELSE a.workerOrder - b.workerOrder

RECURSIVE InsertRow(_, _)
InsertRow(sorted, x) ==
  IF sorted = <<>> THEN <<x>>
  ELSE IF CompareRows(sorted[Len(sorted)], x) <= 0 THEN Append(sorted, x)
  ELSE Append(InsertRow(SubSeq(sorted, 1, Len(sorted) - 1), x), sorted[Len(sorted)])

\* tempRows.sort(...): Array.prototype.sort is stable
RECURSIVE SortRows(_)
SortRows(t) ==
  IF t = <<>> THEN <<>>
  ELSE InsertRow(SortRows(SubSeq(t, 1, Len(t) - 1)), t[Len(t)])

AttendanceRow(t) ==
  [gender |-> t.gender, name |-> t.name, date |-> t.date, basicHours |-> t.basicHours,
   overtimeHours |-> t.overtimeHours, weekendSpecialHours |-> t.weekendSpecialHours,
   weeklyHolidayHours |-> t.weeklyHolidayHours]

-----------------------------------------------------------------------------
(* Rates and totals: shared/schema.ts and the helpers of createOutputWorkbook *)

\* units of the rate tables: 1, 0.75, 0.3125, 0.125
TableUnits(hours) ==
  CASE hours = 8 * Scale          -> Scale
    [] hours = 6 * Scale          -> (3 * Scale) \div 4
    [] hours = (5 * Scale) \div 2 -> (3125 * Scale) \div 10000
    [] hours = Scale              -> Scale \div 8

\* maleRates: hours -> { units, price }
maleRates ==
  [hours \in CanonicalHours |->
     [units |-> TableUnits(hours),
      price |-> CASE hours = 8 * Scale -> 117480
                  [] hours = 6 * Scale -> 88110
                  [] hours = (5 * Scale) \div 2 -> 36713
                  [] hours = Scale -> 14685]]

femaleRates ==
  [hours \in CanonicalHours |->
     [units |-> TableUnits(hours),
      price |-> CASE hours = 8 * Scale -> 108680
                  [] hours = 6 * Scale -> 81510
                  [] hours = (5 * Scale) \div 2 -> 33963
                  [] hours = Scale -> 13585]]

\* (a variant that reads the male table for every gender)
RatesOfMaleOnly(gender) == maleRates

\* gender === '남' ? maleRates : femaleRates
RatesOf(gender) == IF gender = Male THEN maleRates ELSE femaleRates

getWorkUnits(gender, basicHours) ==
  IF basicHours \in DOMAIN RatesOf(gender) THEN RatesOf(gender)[basicHours].units ELSE 0

getUnitPrice(gender, basicHours) ==
  IF basicHours \in DOMAIN RatesOf(gender) THEN RatesOf(gender)[basicHours].price ELSE 0

\* Math.round(num / den) for an even den > 0: the nearest integer, a tie goes up
MathRound(num, den) == (num + den \div 2) \div den

\* Math.round(a * units) for an integer a and a fixed-point units; the whole
\* multiples of Scale in a are taken out first, which keeps the products small
RoundedProduct(a, units) == (a \div Scale) * units + MathRound((a % Scale) * units, Scale)

\* calculateTotal: Math.round(workUnits * unitPrice)
calculateTotal(workUnits, unitPrice) == RoundedProduct(unitPrice, workUnits)

\* hours / 8; exact for the hours that are multiples of 0.0008, as all hours
\* of the model are (they are multiples of 0.5)
Eighth(hours) == hours \div 8

getWeekendSpecialWorkUnits(hours) ==
  IF hours \in CanonicalHours THEN TableUnits(hours) ELSE Eighth(hours)

\* (a variant that prices the weekend-special hours at the weekly-holiday base)
WeekendSpecialAtHolidayBase(hours) ==
  RoundedProduct(99600, getWeekendSpecialWorkUnits(hours))

getWeekendSpecialUnitPrice(hours) ==
  RoundedProduct(171800, getWeekendSpecialWorkUnits(hours))

getWeeklyHolidayWorkUnits(hours) ==
  IF hours \in CanonicalHours THEN TableUnits(hours) ELSE Eighth(hours)

getWeeklyHolidayUnitPrice(hours) ==
  RoundedProduct(99600, getWeeklyHolidayWorkUnits(hours))

\* formatWorkUnits: an integer as it is, otherwise toFixed(4) without the
\* zeros at the end
formatWorkUnits(value) ==
  IF value % Scale = 0 THEN NatToString(value \div Scale) ELSE NumberToString(value)

-----------------------------------------------------------------------------
(* Holidays and week days *)

\* the table `holidays`: month -> days
SolarHolidays(month) ==
  CASE month = 1 -> <<1>> [] month = 3 -> <<1>> [] month = 5 -> <<5>>
    [] month = 6 -> <<6>> [] month = 8 -> <<15>> [] month = 10 -> <<3, 9>>
    [] month = 12 -> <<25>> [] OTHER -> <<>>

lunarHolidays2024(month) ==
  CASE month = 2 -> <<9, 10, 11, 12>> [] month = 4 -> <<10>> [] month = 5 -> <<15>>
    [] month = 9 -> <<16, 17, 18>> [] OTHER -> <<>>

lunarHolidays2025(month) ==
  CASE month = 1 -> <<28, 29, 30>> [] month = 5 -> <<5, 6>>
    [] month = 10 -> <<5, 6, 7, 8>> [] OTHER -> <<>>

\* (a variant that adds the lunar days of 2025 in every year)
LunarOfAnyYear(year, month) == lunarHolidays2024(month) \o lunarHolidays2025(month)

\* the two pushes of lines 474-479
LunarOf(year, month) ==
  (IF year = 2024 THEN lunarHolidays2024(month) ELSE <<>>) \o
  (IF year = 2025 THEN lunarHolidays2025(month) ELSE <<>>)

getKoreanHolidays(year, month) == SolarHolidays(month) \o LunarOf(year, month)

\* days from 1970-01-01 to the first day of a month, months counted from 0 and
\* carried into the year as new Date(year, month - 1, day) does
DaysToMonth(year, month0) ==
  LET y0  == year + (month0 \div 12)
      m   == (month0 % 12) + 1
      y   == IF m <= 2 THEN y0 - 1 ELSE y0
      era == y \div 400
      yoe == y - era * 400
      mp  == (m + 9) % 12
      doy == (153 * mp + 2) \div 5
      doe == yoe * 365 + (yoe \div 4) - (yoe \div 100) + doy
  IN  era * 146097 + doe - 719468

\* getDay() of new Date(year, month - 1, day): 0 is Sunday, 6 is Saturday
DayOfWeek(year, month, day) == (DaysToMonth(year, month - 1) + day - 1 + 4) % 7

isWeekend(year, month, day) ==
  [isSaturday |-> DayOfWeek(year, month, day) = 6,
   isSunday   |-> DayOfWeek(year, month, day) = 0]

-----------------------------------------------------------------------------
(* createOutputWorkbook and the response of POST /api/convert *)

NoResponse == [status |-> 0, error |-> "", filename |-> <<>>, workbook |-> <<>>]

ErrorResponse(status, message) ==
  [status |-> status, error |-> message, filename |-> <<>>, workbook |-> <<>>]

NoPeriod == [year |-> <<>>, month |-> <<>>]

\* x > 0 ? x : ''
OrBlank(x) == IF x > 0 THEN [blank |-> FALSE, v |-> x] ELSE [blank |-> TRUE, v |-> 0]

\* lines 840-841: the units and the price of the basic hours of a row
RowWorkUnits(row) ==
  IF row.basicHours > 0 THEN getWorkUnits(row.gender, row.basicHours) ELSE 0

RowUnitPrice(row) ==
  IF row.basicHours > 0 THEN getUnitPrice(row.gender, row.basicHours) ELSE 0

\* lines 842-847: the three totals of a row
BasicTotal(row) == calculateTotal(RowWorkUnits(row), RowUnitPrice(row))

WeekendSpecialTotal(row) ==
  IF row.weekendSpecialHours > 0 THEN getWeekendSpecialUnitPrice(row.weekendSpecialHours)
  ELSE 0

WeeklyHolidayTotal(row) ==
  IF row.weeklyHolidayHours > 0 THEN getWeeklyHolidayUnitPrice(row.weeklyHolidayHours)
  ELSE 0

\* (a variant that prices the overtime hours like basic hours)
RowTotalWithOvertime(row) ==
  BasicTotal(row) + WeekendSpecialTotal(row) + WeeklyHolidayTotal(row)
    + calculateTotal(getWorkUnits(row.gender, row.overtimeHours),
                     getUnitPrice(row.gender, row.overtimeHours))

\* line 849
RowTotal(row) == BasicTotal(row) + WeekendSpecialTotal(row) + WeeklyHolidayTotal(row)

\* parseInt(year) < 50 ? 2000 + parseInt(year) : 1900 + parseInt(year)
FullYear(year) == IF ParseInt(year) < 50 THEN 2000 + ParseInt(year) ELSE 1900 + ParseInt(year)

\* lines 858-860 and 890-896: the font colour of the date cell
DateColor(row, month, year) ==
  LET day     == ParseInt(row.date)
      weekend == isWeekend(FullYear(year), ParseInt(month), day)
      isHoliday == \E i \in 1..Len(getKoreanHolidays(FullYear(year), ParseInt(month))) :
                     getKoreanHolidays(FullYear(year), ParseInt(month))[i] = day
  IN  IF weekend.isSunday \/ isHoliday THEN "red"
      ELSE IF weekend.isSaturday THEN "blue" ELSE "none"

\* one worksheet.addRow of createOutputWorkbook
OutputRow(row, index, month, year) ==
  [no |-> index + 1, date |-> month \o <<"/">> \o row.date, gender |-> row.gender,
   name |-> row.name, basicHours |-> OrBlank(row.basicHours),
   overtimeHours |-> OrBlank(row.overtimeHours),
   weekendSpecialHours |-> OrBlank(row.weekendSpecialHours),
   weeklyHolidayHours |-> OrBlank(row.weeklyHolidayHours),
   workUnits |-> IF RowWorkUnits(row) > 0 THEN formatWorkUnits(RowWorkUnits(row)) ELSE <<>>,
   unitPrice |-> OrBlank(RowUnitPrice(row)),
   total |-> RowTotal(row),
   dateColor |-> DateColor(row, month, year)]

createOutputWorkbook(data, month, year) ==
  [i \in 1..Len(data) |-> OutputRow(data[i], i - 1, month, year)]

\* `${year}-${month}-${companyName}-...xlsx`
OutputFilename(p, company) ==
  p.year \o <<"-">> \o p.month \o <<"-">> \o company \o <<"-">>

\* (a variant without the check for an empty result)
ConvertResultUnchecked(attendanceData, p, company) ==
  [status |-> 200, error |-> "", filename |-> OutputFilename(p, company),
   workbook |-> createOutputWorkbook(attendanceData, p.month, p.year)]

\* lines 972-985: what the handler sends once parseAttendanceSheet has returned
ConvertResult(attendanceData, p, company) ==
  IF Len(attendanceData) = 0 THEN ErrorResponse(400, "noData")
  ELSE [status |-> 200, error |-> "", filename |-> OutputFilename(p, company),
        workbook |-> createOutputWorkbook(attendanceData, p.month, p.year)]

-----------------------------------------------------------------------------
(* The handler of POST /api/convert, step by step *)

parseVars == <<genderColIndex, nameColIndex, categoryColIndex, headerRowIndex, rowNum,
               dateHeaders, workers, currentGender, currentName, workerOrder,
               attributed, tempRows, rows>>

\* lines 949-970: the checks of the request, the period and the company name
ConvertStart ==
  /\ pc = "start"
  /\ IF ~req.hasFile
       THEN /\ response' = ErrorResponse(400, "noFile")
            /\ pc' = "done"
            /\ UNCHANGED <<period, companyName>>
     ELSE IF req.sheetName = <<>>
       THEN /\ response' = ErrorResponse(400, "noSheetName")
            /\ pc' = "done"
            /\ UNCHANGED <<period, companyName>>
     ELSE IF ~req.loadOk
       THEN /\ response' = ErrorResponse(500, "convertFailed")
            /\ pc' = "done"
            /\ UNCHANGED <<period, companyName>>
     ELSE IF ~req.hasSheet
       THEN /\ response' = ErrorResponse(400, "sheetNotFound")
            /\ pc' = "done"
            /\ UNCHANGED <<period, companyName>>
     ELSE /\ period' = extractMonthFromSheetName(req.sheetName, now)
          /\ companyName' = extractCompanyName(req.originalname)
          /\ pc' = IF 1 <= Min(HeaderScanLimit, RowCount) THEN "headers" ELSE "defaults"
          /\ UNCHANGED response
  /\ UNCHANGED <<req, now, sheet, parseVars,
                 homeVars, callVars>>

\* lines 587-601: one row of the header loop
HeaderScanRow ==
  /\ pc = "headers"
  /\ LET st == HeaderScanCells(HeaderState, rowNum, 1)
     IN  /\ genderColIndex' = st.gender
         /\ nameColIndex' = st.name
         /\ categoryColIndex' = st.category
         /\ headerRowIndex' = st.header
         /\ IF AllFound(st) \/ rowNum + 1 > Min(HeaderScanLimit, RowCount)
              THEN pc' = "defaults" /\ rowNum' = 1
              ELSE pc' = pc /\ rowNum' = rowNum + 1
  /\ UNCHANGED <<req, now, sheet, period, companyName, dateHeaders, workers,
                 currentGender, currentName, workerOrder, attributed, tempRows, rows,
                 response,
                 homeVars, callVars>>

\* lines 605-610: the defaults
HeaderDefaults ==
  /\ pc = "defaults"
  /\ genderColIndex' = DefaultIfNotFound(genderColIndex, 1)
  /\ nameColIndex' = DefaultIfNotFound(nameColIndex, 2)
  /\ categoryColIndex' = DefaultIfNotFound(categoryColIndex, 3)
  /\ headerRowIndex' = DefaultIfNotFound(headerRowIndex, 1)
  /\ dateHeaders' = <<>>
  /\ rowNum' = 1
  /\ pc' = IF 1 <= Min(DateScanLimit, RowCount) THEN "dates" ELSE "sortDates"
  /\ UNCHANGED <<req, now, sheet, period, companyName, workers, currentGender,
                 currentName, workerOrder, attributed, tempRows, rows, response,
                 homeVars, callVars>>

\* lines 612-660: one row of the date loop
DateScanRow ==
  /\ pc = "dates"
  /\ dateHeaders' = DateScanCells(dateHeaders, rowNum, 1, categoryColIndex)
  /\ IF Len(dateHeaders') >= DateHeaderStop \/ rowNum + 1 > Min(DateScanLimit, RowCount)
       THEN pc' = "sortDates" /\ rowNum' = rowNum
       ELSE pc' = pc /\ rowNum' = rowNum + 1
  /\ UNCHANGED <<req, now, sheet, period, companyName, genderColIndex, nameColIndex,
                 categoryColIndex, headerRowIndex, workers, currentGender, currentName,
                 workerOrder, attributed, tempRows, rows, response,
                 homeVars, callVars>>

\* lines 662-681: the sort of the date headers and the start of the row loop
DateSort ==
  /\ pc = "sortDates"
  /\ dateHeaders' = SortByCol(dateHeaders)
  /\ workers' = <<>>
  /\ currentGender' = Male
  /\ currentName' = <<>>
  /\ workerOrder' = 0
  /\ rowNum' = headerRowIndex + 1
  /\ pc' = IF headerRowIndex + 1 <= RowCount THEN "rows" ELSE "flatten"
  /\ UNCHANGED <<req, now, sheet, period, companyName, genderColIndex, nameColIndex,
                 categoryColIndex, headerRowIndex, attributed, tempRows, rows, response,
                 homeVars, callVars>>

\* lines 681-742: one data row
DataRow ==
  /\ pc = "rows"
  /\ LET genderValue   == CellText(Cell(rowNum, genderColIndex))
         nameValue     == CellText(Cell(rowNum, nameColIndex))
         categoryValue == CellText(Cell(rowNum, categoryColIndex))
         gender        == NextGender(currentGender, genderValue)
         name          == NextName(currentName, nameValue)
         key           == WorkerKey(gender, name)
         known         == WorkerIndex(workers, key) # 0
         ws            == IF known THEN workers
                          ELSE Append(workers, NewWorker(gender, name, workerOrder))
         i             == WorkerIndex(ws, key)
     IN  /\ currentGender' = gender
         /\ currentName' = name
         /\ IF RowSkipped(name, categoryValue)
              THEN /\ UNCHANGED <<workers, workerOrder>>
                   /\ attributed' = Append(attributed,
                        [row |-> rowNum, key |-> <<>>, gender |-> gender, name |-> name,
                         worker |-> 0])
              ELSE /\ workers' = [ws EXCEPT ![i] =
                                    AccumulateRow(@, rowNum, categoryValue, dateHeaders, 1)]
                   /\ workerOrder' = IF known THEN workerOrder ELSE workerOrder + 1
                   /\ attributed' = Append(attributed,
                        [row |-> rowNum, key |-> key, gender |-> gender, name |-> name,
                         worker |-> i])
  /\ IF rowNum + 1 <= RowCount
       THEN pc' = pc /\ rowNum' = rowNum + 1
       ELSE pc' = "flatten" /\ rowNum' = rowNum
  /\ UNCHANGED <<req, now, sheet, period, companyName, genderColIndex, nameColIndex,
                 categoryColIndex, headerRowIndex, dateHeaders, tempRows, rows, response,
                 homeVars, callVars>>

\* lines 752-781: the rows of every worker, before the sort
FlattenWorkers ==
  /\ pc = "flatten"
  /\ tempRows' = Flatten(workers, 1)
  /\ pc' = "sort"
  /\ UNCHANGED <<req, now, sheet, period, companyName, genderColIndex, nameColIndex,
                 categoryColIndex, headerRowIndex, rowNum, dateHeaders, workers,
                 currentGender, currentName, workerOrder, attributed, rows, response,
                 homeVars, callVars>>

\* lines 783-803: the sort and the return of parseAttendanceSheet
SortAndReturn ==
  /\ pc = "sort"
  /\ tempRows' = SortRows(tempRows)
  /\ rows' = [i \in 1..Len(tempRows) |-> AttendanceRow(SortRows(tempRows)[i])]
  /\ pc' = "respond"
  /\ UNCHANGED <<req, now, sheet, period, companyName, genderColIndex, nameColIndex,
                 categoryColIndex, headerRowIndex, rowNum, dateHeaders, workers,
                 currentGender, currentName, workerOrder, attributed, response,
                 homeVars, callVars>>

\* lines 972-985: the response
Respond ==
  /\ pc = "respond"
  /\ response' = ConvertResult(rows, period, companyName)
  /\ pc' = "done"
  /\ UNCHANGED <<req, now, sheet, period, companyName, parseVars,
                 homeVars, callVars>>

Next ==
  \/ ConvertStart
  \/ HeaderScanRow
  \/ HeaderDefaults
  \/ DateScanRow
  \/ DateSort
  \/ DataRow
  \/ FlattenWorkers
  \/ SortAndReturn
  \/ Respond

-----------------------------------------------------------------------------
(* The Home component: its state, its handlers and the requests they await *)

NullFile == [null |-> TRUE, name |-> <<>>]

FileOf(name) == [null |-> FALSE, name |-> name]

\* String.prototype.endsWith
EndsWith(s, suffix) ==
  Len(s) >= Len(suffix) /\ SubSeq(s, Len(s) - Len(suffix) + 1, Len(s)) = suffix

\* line 39: name.endsWith('.xlsx') || name.endsWith('.xls')
IsExcelName(name) ==
  EndsWith(name, <<".", "x", "l", "s", "x">>) \/ EndsWith(name, <<".", "x", "l", "s">>)

\* the useState initial values of lines 13-21; nothing is pending
HomeMounted ==
  /\ file = NullFile
  /\ sheets = <<>>
  /\ selectedSheet = <<>>
  /\ step = "upload"
  /\ isLoading = FALSE
  /\ error = "null"
  /\ successMessage = "null"
  /\ isDragging = FALSE
  /\ progress = 0
  /\ sheetsRequest = "none"
  /\ convertRequest = "none"
  /\ timers = 0
  /\ conversions = 0

\* the drop zone is rendered in the upload step and takes no pointer events
\* while isLoading (lines 255-270)
DropZoneActive == step = "upload" /\ ~isLoading

\* lines 54-57 and 63: processFile up to its await
processFile(uploadedFile) ==
  /\ file' = uploadedFile
  /\ error' = "null"
  /\ isLoading' = TRUE
  /\ progress' = 30
  /\ sheetsRequest' = "pending"

\* the names a user can hand over: Excel names and others
FileNames ==
  {<<"a", ".", "x", "l", "s", "x">>, <<"a", ".", "x", "l", "s">>, <<"a", ".", "t", "x", "t">>,
   <<"a", ".", "x", "l", "s", "x", ".", "t", "x", "t">>, <<"x", "l", "s", "x">>,
   <<"a", ".", "X", "L", "S", "X">>}

\* lines 24-27
handleDragOver ==
  /\ DropZoneActive
  /\ isDragging' = TRUE
  /\ UNCHANGED <<file, sheets, selectedSheet, step, isLoading, error, successMessage,
                 progress, sheetsRequest, convertRequest, timers, conversions,
                 handlerVars, callVars>>

\* lines 29-32
handleDragLeave ==
  /\ DropZoneActive
  /\ isDragging' = FALSE
  /\ UNCHANGED <<file, sheets, selectedSheet, step, isLoading, error, successMessage,
                 progress, sheetsRequest, convertRequest, timers, conversions,
                 handlerVars, callVars>>

\* lines 34-44: files[0] is a file or undefined
handleDrop ==
  /\ DropZoneActive
  /\ \E droppedFile \in {FileOf(n) : n \in FileNames} \cup {NullFile} :
       /\ isDragging' = FALSE
       /\ IF ~droppedFile.null /\ IsExcelName(droppedFile.name)
            THEN processFile(droppedFile)
            ELSE /\ error' = "invalidType"
                 /\ UNCHANGED <<file, isLoading, progress, sheetsRequest>>
  /\ UNCHANGED <<sheets, selectedSheet, step, successMessage, convertRequest, timers,
                 conversions, handlerVars, callVars>>

\* lines 46-51: files?.[0] is a file or undefined
handleFileSelect ==
  /\ DropZoneActive
  /\ \E selectedFile \in {FileOf(n) : n \in FileNames} \cup {NullFile} :
       IF ~selectedFile.null
         THEN processFile(selectedFile)
         ELSE UNCHANGED <<file, error, isLoading, progress, sheetsRequest>>
  /\ UNCHANGED <<sheets, selectedSheet, step, successMessage, isDragging, convertRequest,
                 timers, conversions, handlerVars, callVars>>

\* the sheet lists /api/sheets may answer with
SheetLists == {<<>>, <<<<"s", "1">>>>, <<<<"s", "1">>, <<"s", "2">>>>}

\* lines 73-76 and 81: the fetch of processFile resolved with an ok response
SheetsLoaded ==
  /\ sheetsRequest = "pending"
  /\ \E list \in SheetLists : sheets' = list
  /\ step' = "select"
  /\ progress' = 100
  /\ isLoading' = FALSE
  /\ sheetsRequest' = "none"
  /\ UNCHANGED <<file, selectedSheet, error, successMessage, isDragging, convertRequest,
                 timers, conversions, handlerVars, callVars>>

\* lines 68-71 and 77-81: the fetch was rejected or the response was not ok
SheetsFailed ==
  /\ sheetsRequest = "pending"
  /\ error' = "sheetsFailed"
  /\ file' = NullFile
  /\ isLoading' = FALSE
  /\ sheetsRequest' = "none"
  /\ UNCHANGED <<sheets, selectedSheet, step, successMessage, isDragging, progress,
                 convertRequest, timers, conversions, handlerVars, callVars>>

\* line 322: onValueChange of the Select, rendered in the select step
SelectSheet ==
  /\ step = "select"
  /\ \E i \in 1..Len(sheets) : selectedSheet' = sheets[i]
  /\ UNCHANGED <<file, sheets, step, isLoading, error, successMessage, isDragging,
                 progress, sheetsRequest, convertRequest, timers, conversions,
                 handlerVars, callVars>>

\* the calls of handleConvert that are followed
MaxConversions == 2

\* lines 85-105: handleConvert up to its await; the button is rendered in the
\* select step and disabled while !selectedSheet || isLoading (line 374)
handleConvert ==
  /\ step = "select" /\ selectedSheet # <<>> /\ ~isLoading
  /\ conversions < MaxConversions
  /\ IF file.null \/ selectedSheet = <<>>
       THEN UNCHANGED <<step, isLoading, error, progress, timers, convertRequest,
                        conversions>>
       ELSE /\ step' = "processing"
            /\ isLoading' = TRUE
            /\ error' = "null"
            /\ progress' = 0
            /\ timers' = timers + 1
            /\ convertRequest' = "pending"
            /\ conversions' = conversions + 1
  /\ UNCHANGED <<file, sheets, selectedSheet, successMessage, isDragging, sheetsRequest,
                 handlerVars, callVars>>

\* lines 93-95: the callback of a running interval
ProgressTick ==
  /\ timers > 0
  /\ progress' = Min(progress + 10, 90)
  /\ UNCHANGED <<file, sheets, selectedSheet, step, isLoading, error, successMessage,
                 isDragging, sheetsRequest, convertRequest, timers, conversions,
                 handlerVars, callVars>>

\* lines 107-147: the fetch of handleConvert resolved; the response is ok, or
\* not ok, or ok with a file name that decodeURIComponent throws on
ConvertResolved ==
  /\ convertRequest = "pending"
  /\ timers' = timers - 1
  /\ progress' = 100
  /\ \E outcome \in {"ok", "notOk", "badFilename"} :
       IF outcome = "ok"
         THEN /\ step' = "complete"
              /\ successMessage' = "downloaded"
              /\ UNCHANGED error
         ELSE /\ error' = "convertFailed"
              /\ step' = "select"
              /\ UNCHANGED successMessage
  /\ isLoading' = FALSE
  /\ convertRequest' = "none"
  /\ UNCHANGED <<file, sheets, selectedSheet, isDragging, sheetsRequest, conversions,
                 handlerVars, callVars>>

\* a variant without the catch block: the rejection sets neither error nor step
ConvertRejectedUncaught ==
  /\ convertRequest = "pending"
  /\ isLoading' = FALSE
  /\ convertRequest' = "none"
  /\ UNCHANGED <<file, sheets, selectedSheet, step, error, successMessage, isDragging,
                 progress, sheetsRequest, timers, conversions, handlerVars, callVars>>

\* lines 142-147: the fetch of handleConvert was rejected
ConvertRejected ==
  /\ convertRequest = "pending"
  /\ error' = "convertFailed"
  /\ step' = "select"
  /\ isLoading' = FALSE
  /\ convertRequest' = "none"
  /\ UNCHANGED <<file, sheets, selectedSheet, successMessage, isDragging, progress,
                 sheetsRequest, timers, conversions, handlerVars, callVars>>

\* lines 150-161: the two reset buttons are rendered in the select and complete steps
handleReset ==
  /\ step \in {"select", "complete"}
  /\ file' = NullFile
  /\ sheets' = <<>>
  /\ selectedSheet' = <<>>
  /\ step' = "upload"
  /\ error' = "null"
  /\ successMessage' = "null"
  /\ progress' = 0
  /\ UNCHANGED <<isLoading, isDragging, sheetsRequest, convertRequest, timers,
                 conversions, handlerVars, callVars>>

HomeNext ==
  \/ handleDragOver
  \/ handleDragLeave
  \/ handleDrop
  \/ handleFileSelect
  \/ SheetsLoaded
  \/ SheetsFailed
  \/ SelectSheet
  \/ handleConvert
  \/ ProgressTick
  \/ ConvertResolved
  \/ ConvertRejected
  \/ handleReset

-----------------------------------------------------------------------------
(* Calls of the pure functions *)

NoRow ==
  [gender |-> <<>>, name |-> <<>>, date |-> <<>>, basicHours |-> 0, overtimeHours |-> 0,
   weekendSpecialHours |-> 0, weeklyHolidayHours |-> 0]

NotPriced ==
  [done |-> FALSE, workUnits |-> 0, unitPrice |-> 0, basicTotal |-> 0,
   weekendSpecialTotal |-> 0, weeklyHolidayTotal |-> 0, total |-> 0]

\* lines 840-849 for one row
PriceRow ==
  /\ ~priced.done
  /\ priceArg # NoRow
  /\ priced' = [done |-> TRUE,
                workUnits |-> RowWorkUnits(priceArg),
                unitPrice |-> RowUnitPrice(priceArg),
                basicTotal |-> BasicTotal(priceArg),
                weekendSpecialTotal |-> WeekendSpecialTotal(priceArg),
                weeklyHolidayTotal |-> WeeklyHolidayTotal(priceArg),
                total |-> RowTotal(priceArg)]
  /\ UNCHANGED <<priceArg, holidayArg, holidayDays, handlerVars, homeVars>>

NoHolidayArg == [year |-> 0, month |-> 0]

NotCalled == <<-1>>

\* a call of getKoreanHolidays
HolidaysCall ==
  /\ holidayDays = NotCalled
  /\ holidayArg # NoHolidayArg
  /\ holidayDays' = getKoreanHolidays(holidayArg.year, holidayArg.month)
  /\ UNCHANGED <<holidayArg, priceArg, priced, handlerVars, homeVars>>

CallsIdle ==
  /\ priceArg = NoRow
  /\ priced = NotPriced
  /\ holidayArg = NoHolidayArg
  /\ holidayDays = NotCalled

-----------------------------------------------------------------------------
(* Requests *)

Kim == <<"gim">>
Lee == <<"i">>

\* a request that passes the checks of the handler
GoodRequest(sheetName, originalname) ==
  [hasFile |-> TRUE, loadOk |-> TRUE, hasSheet |-> TRUE, sheetName |-> sheetName,
   originalname |-> originalname]

PlainSheetName == <<"2", "4", "nyeon", " ", "3", "wol">>
PlainFilename  == <<"han", "gyeol", "_", "x", ".", "x">>

Clock == [year |-> 2026, month |-> 11]

\* the header row of the sheets described in the source: the three labels, then the dates
HeaderRow(dateCells) ==
  <<Txt(GenderLabel), Txt(<<"seong", "myeong">>), Txt(CategoryLabel)>> \o dateCells

\* the handler at a position, with nothing computed yet
HandlerAt(position, request, clock, worksheet) ==
  /\ req = request
  /\ now = clock
  /\ sheet = worksheet
  /\ pc = position
  /\ period = NoPeriod
  /\ companyName = <<>>
  /\ genderColIndex = NotFound
  /\ nameColIndex = NotFound
  /\ categoryColIndex = NotFound
  /\ headerRowIndex = NotFound
  /\ rowNum = 1
  /\ dateHeaders = <<>>
  /\ workers = <<>>
  /\ currentGender = Male
  /\ currentName = <<>>
  /\ workerOrder = 0
  /\ attributed = <<>>
  /\ tempRows = <<>>
  /\ rows = <<>>
  /\ response = NoResponse

\* the state when the handler is entered
Entered(request, clock, worksheet) ==
  /\ HandlerAt("start", request, clock, worksheet)
  /\ HomeMounted
  /\ CallsIdle

\* all sequences of exactly n elements of S
Rows(S, n) == [1..n -> S]

\* Forward fill: the gender, name and category cells of the data rows vary
FillRows == 3

FillGenderCells   == {Empty, Txt(Male), Txt(Female), Txt(<<"M">>)}
FillNameCells     == {Empty, Txt(Kim), Txt(Lee)}
FillCategoryCells == {Txt(Basic), Txt(<<"gye">>)}

FillRowSet ==
  {<<g, n, c, NumCell(8 * Scale)>> :
     g \in FillGenderCells, n \in FillNameCells, c \in FillCategoryCells}

\* a continuation row (its name cell is blank, its gender cell blank or unusable),
\* or a row that names the man Kim again
FillTailRowSet ==
  {<<g, Empty, c, NumCell(8 * Scale)>> :
     g \in {Empty, Txt(<<"M">>)}, c \in FillCategoryCells}
    \cup {<<Txt(Male), Txt(Kim), Txt(Basic), NumCell(8 * Scale)>>}

\* FillRows - 1 rows of any kind, then one of the rows above
InitFill ==
  \E data \in Rows(FillRowSet, FillRows - 1) : \E tail \in FillTailRowSet :
    Entered(GoodRequest(PlainSheetName, PlainFilename), Clock,
            <<HeaderRow(<<Txt(<<"1">>)>>)>> \o data \o <<tail>>)

SpecFill == InitFill /\ [][Next]_vars

\* Hours: the name, the category and the hours cell of the data rows vary; one date column
HoursRows == 2

HoursNameCells     == {Txt(Kim), Txt(Lee)}
HoursCategoryCells == {Txt(Basic), Txt(Overtime), Txt(WeekendSpecial), Txt(WeeklyHoliday),
                       Txt(<<"gye">>)}
HoursCells         == {Empty, NumCell(8 * Scale), NumCell(4 * Scale),
                       Txt(<<"2", ".", "5">>), Txt(<<"x">>)}

HoursRowSet ==
  {<<Empty, n, c, h>> : n \in HoursNameCells, c \in HoursCategoryCells, h \in HoursCells}

\* requests the handler turns down before it reads the sheet
BadRequests ==
  {[GoodRequest(PlainSheetName, PlainFilename) EXCEPT !.hasFile = FALSE],
   [GoodRequest(PlainSheetName, PlainFilename) EXCEPT !.sheetName = <<>>],
   [GoodRequest(PlainSheetName, PlainFilename) EXCEPT !.loadOk = FALSE],
   [GoodRequest(PlainSheetName, PlainFilename) EXCEPT !.hasSheet = FALSE]}

PlainSheet ==
  <<HeaderRow(<<Txt(<<"1">>)>>), <<Txt(Male), Txt(Kim), Txt(Basic), NumCell(8 * Scale)>>>>

InitHours ==
  \/ \E data \in Rows(HoursRowSet, HoursRows) :
       Entered(GoodRequest(PlainSheetName, PlainFilename), Clock,
               <<HeaderRow(<<Txt(<<"1">>)>>)>> \o data)
  \/ \E request \in BadRequests : Entered(request, Clock, PlainSheet)

SpecHours == InitHours /\ [][Next]_vars

\* Order: two date columns whose days are in either order, two workers in either order
OrderRows == 2

OrderDateCells == {<<Txt(<<"1">>), Txt(<<"2">>)>>, <<Txt(<<"2">>), Txt(<<"1">>)>>,
                   <<Txt(<<"7">>), Txt(<<"7">>)>>}

OrderRowSet ==
  {<<Empty, n, c, h1, h2>> :
     n \in HoursNameCells, c \in {Txt(Basic), Txt(Overtime), Txt(WeekendSpecial)},
     h1 \in {Empty, NumCell(8 * Scale)}, h2 \in {Empty, NumCell(8 * Scale)}}

InitOrder ==
  \E dates \in OrderDateCells, data \in Rows(OrderRowSet, OrderRows) :
    Entered(GoodRequest(PlainSheetName, PlainFilename), Clock,
            <<HeaderRow(dates)>> \o data)

SpecOrder == InitOrder /\ [][Next]_vars

\* Header labels: the cells of the first two rows vary over the labels
LabelCols == 3

LabelCells == {Empty, Txt(GenderLabel), Txt(<<"i", "reum">>), Txt(CategoryLabel)}

InitLabels ==
  \E top \in Rows(Rows(LabelCells, LabelCols), 2) :
    Entered(GoodRequest(PlainSheetName, PlainFilename), Clock,
            top \o <<<<Txt(Female), Txt(Kim), Txt(Basic), NumCell(8 * Scale)>>>>)

SpecLabels == InitLabels /\ [][Next]_vars

\* Date headers: the cells right of the category column in the first two rows vary
\* over the three encodings of a day; a data row follows
DateCols == 2

DateCells == {Empty, Txt(<<"5">>), Rich(<<" ", "3", "/", "7">>), DateCell(15),
              Txt(<<"1", "/", "4", "5">>), Txt(<<"3", "2">>)}

InitDates ==
  \E top \in Rows(Rows(DateCells, DateCols), 2) :
    Entered(GoodRequest(PlainSheetName, PlainFilename), Clock,
            <<HeaderRow(top[1]), <<Empty, Empty, Empty>> \o top[2],
              <<Txt(Male), Txt(Kim), Txt(Basic)>> \o [c \in 1..DateCols |-> NumCell(8 * Scale)]>>)

SpecDates == InitDates /\ [][Next]_vars

\* File names: every text up to a length over a small alphabet
MaxFilenameLen == 5

FilenameChars == {"A", "_", "gim", "xED", "x95"}

Texts(chars, n) == UNION {[1..k -> chars] : k \in 0..n}

InitCompany ==
  \E name \in Texts(FilenameChars, MaxFilenameLen) :
    Entered(GoodRequest(PlainSheetName, name), Clock, PlainSheet)

SpecCompany == InitCompany /\ [][Next]_vars

\* Sheet names: every text up to a length over digits and the two markers
MaxSheetNameLen == 6

SheetNameChars == {"1", "2", "nyeon", "wol", " "}

InitPeriod ==
  \E name \in Texts(SheetNameChars, MaxSheetNameLen) :
    Entered(GoodRequest(name, PlainFilename), Clock, PlainSheet)

SpecPeriod == InitPeriod /\ [][Next]_vars

\* the state in which the handler is not running
HandlerIdle == HandlerAt("idle", GoodRequest(PlainSheetName, PlainFilename), Clock, PlainSheet)

\* Pricing: rows whose hours are multiples of half an hour, from -0.5 up
MaxHalfHours == 16

PriceHours == {(k * Scale) \div 2 : k \in (-1)..MaxHalfHours}

PriceRows ==
  [gender : {Male, Female}, name : {Kim, Lee}, date : {<<"1">>, <<"2">>},
   basicHours : PriceHours, overtimeHours : {0, 8 * Scale},
   weekendSpecialHours : PriceHours, weeklyHolidayHours : PriceHours]

InitPricing ==
  \E row \in PriceRows :
    /\ HandlerIdle
    /\ HomeMounted
    /\ priceArg = row
    /\ priced = NotPriced
    /\ holidayArg = NoHolidayArg
    /\ holidayDays = NotCalled

SpecPricing == InitPricing /\ [][PriceRow]_vars

\* Holidays: the months of the years around 2024 and 2025
YearSpan == 3

HolidayYears == (2024 - YearSpan)..(2025 + YearSpan)

InitHolidays ==
  \E y \in HolidayYears, m \in 1..12 :
    /\ HandlerIdle
    /\ HomeMounted
    /\ priceArg = NoRow
    /\ priced = NotPriced
    /\ holidayArg = [year |-> y, month |-> m]
    /\ holidayDays = NotCalled

SpecHolidays == InitHolidays /\ [][HolidaysCall]_vars

\* The Home component from its mount on; the handler is not running
InitHome == HandlerIdle /\ HomeMounted /\ CallsIdle

SpecHome == InitHome /\ [][HomeNext]_vars

\* the same, with every pending /api/convert request settling: a fetch resolves or
\* rejects
SpecHomeSettling ==
  InitHome /\ [][HomeNext]_vars /\ WF_vars(ConvertResolved \/ ConvertRejected)

Init == InitFill \/ InitHours \/ InitOrder \/ InitLabels \/ InitDates \/ InitCompany \/ InitPeriod

Spec == Init /\ [][Next]_vars

-----------------------------------------------------------------------------
(* Properties of the row loop *)

DataRowsUpTo(r) == (headerRowIndex + 1)..r

Max(S) == CHOOSE x \in S : \A y \in S : y <= x

GenderTextAt(r)   == CellText(Cell(r, genderColIndex))
NameTextAt(r)     == CellText(Cell(r, nameColIndex))
CategoryTextAt(r) == CellText(Cell(r, categoryColIndex))

\* the name of the nearest data row at or above r whose name cell is not blank
NearestName(r) ==
  LET S == {q \in DataRowsUpTo(r) : NameTextAt(q) # <<>>}
  IN  IF S = {} THEN <<>> ELSE NameTextAt(Max(S))

\* the gender of the nearest data row at or above r whose gender cell is not blank
NearestNonBlankGender(r) ==
  LET S == {q \in DataRowsUpTo(r) : GenderTextAt(q) # <<>>}
  IN  IF S = {} THEN Male ELSE GenderTextAt(Max(S))

\* the gender of the nearest data row at or above r whose gender cell holds a gender
NearestGender(r) ==
  LET S == {q \in DataRowsUpTo(r) : GenderTextAt(q) \in {Male, Female}}
  IN  IF S = {} THEN Male ELSE GenderTextAt(Max(S))

Attribution(r, gender) ==
  IF NearestName(r) = <<>> \/ CategoryTextAt(r) \notin Categories THEN <<>>
  ELSE WorkerKey(gender, NearestName(r))

-----------------------------------------------------------------------------
(* Properties of the accumulated hours and of the rows returned *)

\* the sheet has been read: the request passed the checks of the handler
Parsing == period # NoPeriod

RowsDone    == Parsing /\ pc \in {"flatten", "sort", "respond", "done"}
Returned    == Parsing /\ pc \in {"respond", "done"}

WorkerSet == {workers[i] : i \in 1..Len(workers)}

\* the data rows accumulated into the worker with this key
RowsOf(key) == {attributed[k].row : k \in {j \in 1..Len(attributed) : attributed[j].key = key}}

\* the hours cells of row r under a date header of this day
CellsOfDay(r, day) ==
  {Cell(r, dateHeaders[i].col) : i \in {j \in 1..Len(dateHeaders) : dateHeaders[j].day = day}}

AllMapDays(w) ==
  {w.basicHours[i].day : i \in 1..Len(w.basicHours)}
    \cup {w.overtimeHours[i].day : i \in 1..Len(w.overtimeHours)}
    \cup {w.weekendSpecialHours[i].day : i \in 1..Len(w.weekendSpecialHours)}
    \cup {w.weeklyHolidayHours[i].day : i \in 1..Len(w.weeklyHolidayHours)}

\* the hours 8, 6, 2.5 and 1
ClaimedHours == {8 * Scale, 6 * Scale, (5 * Scale) \div 2, 1 * Scale}

\* C2: every value in every basic map is one of 8, 6, 2.5, 1; once the rows are
\* read, a day is in a worker's basic map exactly when one of the worker's basic
\* rows holds a canonical value under a header of that day, so a day whose basic
\* cells were all non-canonical is absent.
C2_BasicCanonical ==
  /\ \A w \in WorkerSet : \A i \in 1..Len(w.basicHours) :
       w.basicHours[i].hours \in ClaimedHours
  /\ RowsDone =>
       \A w \in WorkerSet : \A i \in 1..Len(dateHeaders) :
         MapHas(w.basicHours, dateHeaders[i].day)
           <=> \E r \in RowsOf(w.key) :
                 /\ CategoryTextAt(r) = Basic
                 /\ \E c \in CellsOfDay(r, dateHeaders[i].day) :
                      HoursValue(c) \in ClaimedHours

\* a basic row held 4 for a day, and the day is not in the worker's basic map
C2_Witness ==
  /\ pc = "done"
  /\ \E w \in WorkerSet : \E r \in RowsOf(w.key) : \E i \in 1..Len(dateHeaders) :
       /\ CategoryTextAt(r) = Basic
       /\ HoursValue(Cell(r, dateHeaders[i].col)) = 4 * Scale
       /\ ~MapHas(w.basicHours, dateHeaders[i].day)

RowsFor(w, day) ==
  {i \in 1..Len(rows) :
     rows[i].gender = w.gender /\ rows[i].name = w.name /\ ParseInt(rows[i].date) = day}

\* C3: every row returned has basic, weekend-special or weekly-holiday hours above
\* zero and is the row of a worker and a day; a worker's day with only overtime
\* hours has no row, and a day with basic, weekend-special or weekly-holiday hours
\* has exactly one row, holding the hours of the four maps.
C3_RowEmission ==
  Returned =>
    /\ \A i \in 1..Len(rows) :
         /\ rows[i].basicHours > 0 \/ rows[i].weekendSpecialHours > 0
              \/ rows[i].weeklyHolidayHours > 0
         /\ \E w \in WorkerSet : i \in RowsFor(w, ParseInt(rows[i].date))
    /\ \A w \in WorkerSet : \A day \in AllMapDays(w) :
         IF MapGetOr0(w.basicHours, day) > 0 \/ MapGetOr0(w.weekendSpecialHours, day) > 0
              \/ MapGetOr0(w.weeklyHolidayHours, day) > 0
         THEN /\ Cardinality(RowsFor(w, day)) = 1
              /\ \A i \in RowsFor(w, day) :
                   /\ rows[i].basicHours = MapGetOr0(w.basicHours, day)
                   /\ rows[i].overtimeHours = MapGetOr0(w.overtimeHours, day)
                   /\ rows[i].weekendSpecialHours = MapGetOr0(w.weekendSpecialHours, day)
                   /\ rows[i].weeklyHolidayHours = MapGetOr0(w.weeklyHolidayHours, day)
         ELSE RowsFor(w, day) = {}

\* a worker has overtime hours on two days and other hours on one of them: that day
\* has a row carrying the overtime hours, the day with only overtime hours has none
C3_Witness ==
  /\ pc = "done"
  /\ \E w \in WorkerSet : \E d1, d2 \in AllMapDays(w) :
       /\ MapHas(w.overtimeHours, d1) /\ MapHas(w.overtimeHours, d2)
       /\ ~MapHas(w.basicHours, d1) /\ ~MapHas(w.weekendSpecialHours, d1)
       /\ RowsFor(w, d1) = {}
       /\ \E i \in RowsFor(w, d2) : rows[i].overtimeHours > 0

\* the place of a worker in the order of discovery: the first row accumulated into it
FirstRowOf(gender, name) ==
  CHOOSE r \in RowsOf(WorkerKey(gender, name)) :
    \A q \in RowsOf(WorkerKey(gender, name)) : r <= q

\* C4: the rows returned are in strict order by day, then by the worker's place in
\* the order of discovery in the sheet: no two rows share (day, worker).
C4_RowOrder ==
  Returned =>
    \A i \in 1..Len(rows) : \A j \in 1..Len(rows) :
      i < j =>
        \/ ParseInt(rows[i].date) < ParseInt(rows[j].date)
        \/ /\ ParseInt(rows[i].date) = ParseInt(rows[j].date)
           /\ FirstRowOf(rows[i].gender, rows[i].name)
                < FirstRowOf(rows[j].gender, rows[j].name)

\* the day of the second date column is before the day of the first, both days have
\* rows, and a row of the worker i, discovered first, comes right before the row of
\* the worker gim for the same day
C4_Witness ==
  /\ pc = "done"
  /\ Len(dateHeaders) = 2 /\ dateHeaders[1].day > dateHeaders[2].day
  /\ \E i \in 1..(Len(rows) - 1) :
       /\ rows[i].date = rows[i + 1].date
       /\ rows[i].name = Lee /\ rows[i + 1].name = Kim
  /\ \E i, j \in 1..Len(rows) : rows[i].date # rows[j].date

\* C8: when parseAttendanceSheet returned no row the handler answers with the
\* 'no data found' error and sends no workbook; a workbook is sent only for at
\* least one row, and then it holds every row returned, in order.
C8_AllOrNothing ==
  /\ response.workbook # <<>> \/ response.status = 200 =>
       /\ pc = "done" /\ rows # <<>>
       /\ Len(response.workbook) = Len(rows)
       /\ \A i \in 1..Len(rows) :
            /\ response.workbook[i].no = i
            /\ response.workbook[i].gender = rows[i].gender
            /\ response.workbook[i].name = rows[i].name
            /\ response.workbook[i].date = period.month \o <<"/">> \o rows[i].date
            /\ response.workbook[i].basicHours = OrBlank(rows[i].basicHours)
            /\ response.workbook[i].overtimeHours = OrBlank(rows[i].overtimeHours)
            /\ response.workbook[i].weekendSpecialHours = OrBlank(rows[i].weekendSpecialHours)
            /\ response.workbook[i].weeklyHolidayHours = OrBlank(rows[i].weeklyHolidayHours)
  /\ pc = "done" /\ Parsing /\ rows = <<>> =>
       response = [status |-> 400, error |-> "noData", filename |-> <<>>, workbook |-> <<>>]
  /\ pc = "done" /\ Parsing /\ rows # <<>> => response.status = 200

\* no category cell holds one of the four codes although hours are filled in: the
\* request ended with the error and without a workbook
C8_Witness ==
  /\ pc = "done" /\ Parsing
  /\ \A r \in DataRowsUpTo(RowCount) : CategoryTextAt(r) \notin Categories
  /\ \E r \in DataRowsUpTo(RowCount) : HoursValue(Cell(r, 4)) > 0
  /\ response.error = "noData" /\ response.workbook = <<>>

-----------------------------------------------------------------------------
(* Properties of the header detection and of the date columns *)

HeadersDone == Parsing /\ pc \notin {"start", "headers"}

Width == Max({Len(sheet[r]) : r \in 1..RowCount} \cup {0})

\* the cells of the rows the header loop may scan that hold one of the labels
LabelPlaces(labels) ==
  {p \in (1..Min(HeaderScanLimit, RowCount)) \X (1..Width) :
     CellText(Cell(p[1], p[2])) \in labels}

\* the first of them in scan order: rows top to bottom, columns left to right
FirstPlace(S) ==
  CHOOSE p \in S : \A q \in S : p[1] < q[1] \/ (p[1] = q[1] /\ p[2] <= q[2])

\* C5: for each label the column recorded (for the gender label also the header
\* row) is that of the first cell in scan order that holds the label; a later cell
\* with the same label never overwrites it.
C5_FirstMatchWins ==
  HeadersDone =>
    /\ LabelPlaces({GenderLabel}) # {} =>
         /\ genderColIndex = FirstPlace(LabelPlaces({GenderLabel}))[2]
         /\ headerRowIndex = FirstPlace(LabelPlaces({GenderLabel}))[1]
    /\ LabelPlaces(NameLabels) # {} =>
         nameColIndex = FirstPlace(LabelPlaces(NameLabels))[2]
    /\ LabelPlaces({CategoryLabel}) # {} =>
         categoryColIndex = FirstPlace(LabelPlaces({CategoryLabel}))[2]

\* C6: every date header has a day from 1 to 31.
C6_DayInRange ==
  \A i \in 1..Len(dateHeaders) : dateHeaders[i].day \in 1..31

\* a cell that gives a day in one of the three encodings, and the day it gives
GivesDay(c) ==
  \/ c.k = "date"
  \/ c.k # "empty" /\ SlashMatch(DateCellValue(c), 1) # 0
  \/ c.k # "empty" /\ IsBareDay(DateCellValue(c)) /\ ParseInt(DateCellValue(c)) \in 1..31

DayGiven(c) ==
  IF c.k = "date" THEN c.n
  ELSE IF SlashMatch(DateCellValue(c), 1) # 0
    THEN ParseInt(SlashDay(DateCellValue(c), SlashMatch(DateCellValue(c), 1)))
  ELSE ParseInt(DateCellValue(c))

DateScanRows == 1..Min(DateScanLimit, RowCount)

GivingRows(col) == {r \in DateScanRows : GivesDay(Cell(r, col))}

FirstGivingRow(col) == CHOOSE r \in GivingRows(col) : \A q \in GivingRows(col) : r <= q

\* C7: no two date headers have the same column; the day of a header is the day
\* given by the first cell of its column, in rows 1..min(10, rowCount) from the
\* top, that gives a day; unless the scan stopped at 10 headers, every column in
\* range with such a cell has a header.
C7_OneDayPerColumn ==
  /\ \A i, j \in 1..Len(dateHeaders) : i # j => dateHeaders[i].col # dateHeaders[j].col
  /\ \A i \in 1..Len(dateHeaders) :
       /\ dateHeaders[i].col > categoryColIndex
       /\ GivingRows(dateHeaders[i].col) # {}
       /\ dateHeaders[i].day =
            DayGiven(Cell(FirstGivingRow(dateHeaders[i].col), dateHeaders[i].col))
  /\ Parsing /\ pc \in {"sortDates", "rows", "flatten", "sort", "respond", "done"}
       /\ Len(dateHeaders) < DateHeaderStop
       => \A col \in (categoryColIndex + 1)..Width :
            col <= categoryColIndex + DateColSpan /\ GivingRows(col) # {}
              => HasCol(dateHeaders, col)

\* a column holds cells that give different days in two rows, and its header has
\* the day of the upper one
C7_Witness ==
  /\ pc = "done"
  /\ \E i \in 1..Len(dateHeaders) : \E r1, r2 \in GivingRows(dateHeaders[i].col) :
       /\ r1 < r2
       /\ DayGiven(Cell(r1, dateHeaders[i].col)) # DayGiven(Cell(r2, dateHeaders[i].col))
       /\ dateHeaders[i].day = DayGiven(Cell(r1, dateHeaders[i].col))

-----------------------------------------------------------------------------
(* Properties of the company name and of the period *)

\* C9: the company name is the default label or a text of Hangul syllables only,
\* and it is the default label when the file name has no underscore.
C9_HangulOrDefault ==
  Parsing =>
    /\ companyName = DefaultCompany \/ IsHangulText(companyName)
    /\ FirstUnderscore(req.originalname, 1) = 0 => companyName = DefaultCompany

\* some position of s where the pattern matches
Somewhere(s, P(_, _)) == {p \in 1..Len(s) : P(s, p).alt # 0}

\* the patterns tried one after the other, each over the whole sheet name
PeriodByPriority(s, clock) ==
  IF Somewhere(s, YYMMAt) # {}
    THEN LET m == YYMMAt(s, CHOOSE p \in Somewhere(s, YYMMAt) :
                               \A q \in Somewhere(s, YYMMAt) : p <= q)
         IN  [year |-> m.year, month |-> PadStart2(m.month)]
  ELSE IF Somewhere(s, YYNyeonAt) # {}
    THEN LET m == YYNyeonAt(s, CHOOSE p \in Somewhere(s, YYNyeonAt) :
                                  \A q \in Somewhere(s, YYNyeonAt) : p <= q)
         IN  [year |-> m.year, month |-> PadStart2(m.month)]
  ELSE IF Somewhere(s, YYYYAt) # {}
    THEN LET m == YYYYAt(s, CHOOSE p \in Somewhere(s, YYYYAt) :
                               \A q \in Somewhere(s, YYYYAt) : p <= q)
         IN  [year |-> Last2(m.year), month |-> PadStart2(m.month)]
  ELSE IF SimpleMonthMatch(s) # NoMatch
    THEN [year |-> Last2(NatToString(clock.year)), month |-> PadStart2(SimpleMonthMatch(s))]
  ELSE [year |-> Last2(NatToString(clock.year)),
        month |-> PadStart2(NatToString(clock.month))]

\* C10: the period comes from the pattern of highest priority that matches
\* anywhere in the sheet name, also when a pattern of lower priority matches at
\* an earlier position.
C10_PatternPriority ==
  Parsing => period = PeriodByPriority(req.sheetName, now)

-----------------------------------------------------------------------------
(* Properties of the pricing *)

\* the pairs (units, price) as the rate tables are documented, by gender and hours
DocumentedPair(gender, hours) ==
  IF gender = Male
    THEN CASE hours = 8 * Scale -> <<Scale, 117480>>
           [] hours = 6 * Scale -> <<7500, 88110>>
           [] hours = 25000     -> <<3125, 36713>>
           [] hours = Scale     -> <<1250, 14685>>
           [] OTHER             -> <<0, 0>>
    ELSE CASE hours = 8 * Scale -> <<Scale, 108680>>
           [] hours = 6 * Scale -> <<7500, 81510>>
           [] hours = 25000     -> <<3125, 33963>>
           [] hours = Scale     -> <<1250, 13585>>
           [] OTHER             -> <<0, 0>>

\* C11: the units and the price of a priced row are the pair of the rate table
\* for its gender and basic hours, whatever its other fields; both are 0 when
\* the basic hours are 0 or no key of the table.
C11_RateTablePair ==
  priced.done =>
    <<priced.workUnits, priced.unitPrice>> =
      DocumentedPair(priceArg.gender, priceArg.basicHours)

\* a woman's row of 2.5 basic hours with overtime and weekend-special hours is
\* priced at 0.3125 units of 33963
C11_Witness ==
  /\ priced.done
  /\ priceArg.gender = Female /\ priceArg.basicHours = 25000
  /\ priceArg.overtimeHours > 0 /\ priceArg.weekendSpecialHours > 0
  /\ priced.workUnits = 3125 /\ priced.unitPrice = 33963

\* r is x / Scale rounded to the nearest integer, a tie going up
IsHalfUp(r, x) == r * Scale - Scale \div 2 <= x /\ x < r * Scale + Scale \div 2

\* C12: the total of a priced row is the sum of its basic, weekend-special and
\* weekly-holiday totals, the basic total being units x price rounded half up;
\* the overtime hours do not enter: the row with its overtime hours set to 0 has
\* the same total.
C12_TotalIsSum ==
  priced.done =>
    /\ priced.total =
         priced.basicTotal + priced.weekendSpecialTotal + priced.weeklyHolidayTotal
    /\ IsHalfUp(priced.basicTotal, priced.workUnits * priced.unitPrice)
    /\ priced.total = RowTotal([priceArg EXCEPT !.overtimeHours = 0])

\* a man's row of 6 basic hours (0.75 x 88110 = 66082.5, a tie), 8 overtime
\* hours and 4 hours of each special kind totals 66083 + 85900 + 49800
C12_Witness ==
  /\ priced.done
  /\ priceArg.gender = Male /\ priceArg.basicHours = 6 * Scale
  /\ priceArg.overtimeHours = 8 * Scale
  /\ priceArg.weekendSpecialHours = 4 * Scale /\ priceArg.weeklyHolidayHours = 4 * Scale
  /\ priced.basicTotal = 66083
  /\ priced.total = 201783

\* r is basePrice x h / 8 rounded to the nearest integer, a tie going up, for
\* the hours h = hours / Scale: basePrice x h / 8 = (basePrice / 200) x hours / 400
IsHalfUpOfEighth(r, basePrice, hours) ==
  /\ r * 400 - 200 <= (basePrice \div 200) * hours
  /\ (basePrice \div 200) * hours < r * 400 + 200

NonCanonical(hours) == hours > 0 /\ hours \notin {8 * Scale, 6 * Scale, 25000, Scale}

-----------------------------------------------------------------------------
(* Properties of the workers map *)

\* the rows scanned so far that were accepted: added to a worker
Accepted == {k \in 1..Len(attributed) : attributed[k].worker # 0}

\* the k-th row scanned is accepted and no accepted row before it has its pair
FirstOfPair(k) ==
  k \in Accepted /\ \A j \in Accepted :
    j < k => <<attributed[j].gender, attributed[j].name>>
               # <<attributed[k].gender, attributed[k].name>>

\* C14: two accepted rows are added to the same worker exactly when their
\* current gender and name are equal; a worker is created at the first accepted
\* row of its pair, with the number of workers created before it as its index;
\* every worker stays in its place with its pair and its index.
C14_WorkerIdentity ==
  /\ \A j, k \in Accepted :
       attributed[j].worker = attributed[k].worker
         <=> /\ attributed[j].gender = attributed[k].gender
             /\ attributed[j].name = attributed[k].name
  /\ \A k \in Accepted :
       /\ attributed[k].worker \in 1..Len(workers)
       /\ workers[attributed[k].worker].gender = attributed[k].gender
       /\ workers[attributed[k].worker].name = attributed[k].name
       /\ FirstOfPair(k) =>
            attributed[k].worker = Cardinality({j \in Accepted : j < k /\ FirstOfPair(j)}) + 1
  /\ \A i \in 1..Len(workers) :
       /\ workers[i].order = i - 1
       /\ \E k \in Accepted : FirstOfPair(k) /\ attributed[k].worker = i
  /\ workerOrder = Len(workers)

\* a man and a woman of the same name are two workers, and a later row of the
\* man is added to the first of them
C14_Witness ==
  /\ pc = "done"
  /\ Len(workers) = 2
  /\ workers[1].name = workers[2].name /\ workers[1].gender # workers[2].gender
  /\ \E j \in Accepted :
       /\ j + 2 \in Accepted
       /\ attributed[j].worker = 1
       /\ attributed[j + 1].worker = 2
       /\ attributed[j + 2].worker = 1

-----------------------------------------------------------------------------
(* Properties of the holidays *)

\* the days of the fixed solar table, and of the lunar tables of 2024 and 2025
SolarDays(month) ==
  CASE month = 1 -> {1} [] month = 3 -> {1} [] month = 5 -> {5} [] month = 6 -> {6}
    [] month = 8 -> {15} [] month = 10 -> {3, 9} [] month = 12 -> {25} [] OTHER -> {}

LunarDays(year, month) ==
  CASE year = 2024 /\ month = 2 -> {9, 10, 11, 12}
    [] year = 2024 /\ month = 4 -> {10}
    [] year = 2024 /\ month = 5 -> {15}
    [] year = 2024 /\ month = 9 -> {16, 17, 18}
    [] year = 2025 /\ month = 1 -> {28, 29, 30}
    [] year = 2025 /\ month = 5 -> {5, 6}
    [] year = 2025 /\ month = 10 -> {5, 6, 7, 8}
    [] OTHER -> {}

DaysOf(days) == {days[i] : i \in 1..Len(days)}

\* C15: the days returned for a year and a month are exactly the solar days of
\* the month together with the lunar days of that year and month, which exist
\* for 2024 and 2025 only; in a January, day 29 is returned for 2025 and for no
\* other year.
C15_HolidaysOfMonth ==
  holidayDays # NotCalled =>
    /\ DaysOf(holidayDays) =
         SolarDays(holidayArg.month) \cup LunarDays(holidayArg.year, holidayArg.month)
    /\ holidayArg.year \notin {2024, 2025} =>
         DaysOf(holidayDays) = SolarDays(holidayArg.month)
    /\ holidayArg.month = 1 => (29 \in DaysOf(holidayDays) <=> holidayArg.year = 2025)

\* January 2025 gives the solar day 1 and the lunar days 28, 29, 30
C15_Witness ==
  /\ holidayArg = [year |-> 2025, month |-> 1]
  /\ holidayDays = <<1, 28, 29, 30>>

-----------------------------------------------------------------------------
(* Properties of the header defaults *)

LocateDone == Parsing /\ pc \notin {"start", "headers", "defaults"}

\* the index pair is the place of one of the cells that hold one of the labels
AtLabel(labels, rowIndex, colIndex) ==
  \E p \in LabelPlaces(labels) : p[1] = rowIndex /\ p[2] = colIndex

ColumnAtLabel(labels, colIndex) == \E p \in LabelPlaces(labels) : p[2] = colIndex

\* C16: once the header detection is over, a field whose label is in none of rows
\* 1..min(15, rowCount) holds its default (gender column 1, name column 2, category
\* column 3, header row 1), a field whose label is there holds the place of a cell
\* with that label, and all four indices are positive.
C16_HeaderDefaults ==
  LocateDone =>
    /\ IF LabelPlaces({GenderLabel}) = {}
         THEN genderColIndex = 1 /\ headerRowIndex = 1
         ELSE AtLabel({GenderLabel}, headerRowIndex, genderColIndex)
    /\ IF LabelPlaces(NameLabels) = {}
         THEN nameColIndex = 2
         ELSE ColumnAtLabel(NameLabels, nameColIndex)
    /\ IF LabelPlaces({CategoryLabel}) = {}
         THEN categoryColIndex = 3
         ELSE ColumnAtLabel({CategoryLabel}, categoryColIndex)
    /\ genderColIndex > 0 /\ nameColIndex > 0 /\ categoryColIndex > 0
    /\ headerRowIndex > 0

\* the gender and category labels are absent and take their defaults, the name label
\* stands in column 1 of row 2, and the parse has gone on to the end
C16_Witness ==
  /\ pc = "done" /\ Parsing
  /\ LabelPlaces({GenderLabel}) = {} /\ LabelPlaces({CategoryLabel}) = {}
  /\ LabelPlaces(NameLabels) = {<<2, 1>>}
  /\ genderColIndex = 1 /\ headerRowIndex = 1 /\ categoryColIndex = 3
  /\ nameColIndex = 1

-----------------------------------------------------------------------------
(* Properties of the Home component *)

\* C17: a file whose name ends in neither .xlsx nor .xls never starts processFile,
\* on the drop path and on the file input path alike: the component never holds
\* such a file and never has a request to /api/sheets pending for it.
C17_InvalidTypeRejected ==
  /\ ~file.null => IsExcelName(file.name)
  /\ sheetsRequest = "pending" => ~file.null /\ IsExcelName(file.name)

\* the step changes this step makes, if any, are those of the workflow
StepChange ==
  step' # step =>
    \/ /\ step = "upload" /\ step' = "select"
       /\ sheetsRequest = "pending" /\ sheetsRequest' = "none"
    \/ /\ step = "select" /\ step' = "processing"
       /\ ~file.null /\ selectedSheet # <<>>
       /\ convertRequest = "none" /\ convertRequest' = "pending"
    \/ /\ step = "processing" /\ step' = "complete"
       /\ successMessage' = "downloaded"
    \/ /\ step = "processing" /\ step' = "select"
       /\ error' = "convertFailed"
    \/ /\ step \in {"select", "complete"} /\ step' = "upload"
       /\ file' = NullFile /\ sheets' = <<>> /\ selectedSheet' = <<>>

\* the request of a conversion settles: the step leaves processing, isLoading is false
Settles ==
  convertRequest = "pending" /\ convertRequest' = "none" =>
    step = "processing" /\ step' \in {"select", "complete"} /\ ~isLoading'

\* C18: the step changes only upload -> select (sheet list loaded), select ->
\* processing (conversion started with a file and a selected sheet), processing ->
\* complete (success message set), processing -> select (error set) and select or
\* complete -> upload (reset); a conversion that was started leaves processing with
\* isLoading false when its request settles, which it eventually does; and whenever
\* the step is not upload the file is not null.
C18_Workflow ==
  /\ [][StepChange /\ Settles]_vars
  /\ [](step # "upload" => ~file.null)
  /\ [](step = "processing" => convertRequest = "pending" /\ isLoading)
  /\ (step = "processing") ~> (step # "processing" /\ ~isLoading)

\* a first conversion failed, a second one succeeded
C18_Witness ==
  /\ step = "complete" /\ conversions = 2
  /\ successMessage = "downloaded" /\ error = "null"
  /\ ~isLoading /\ ~file.null /\ convertRequest = "none"

\* C19: every progress timer started by handleConvert is stopped by the time
\* handleConvert finishes, whether the response was a success, an error or the
\* request was rejected: once the step has left processing no timer is running, so
\* none changes progress afterwards.
C19_TimerStopped ==
  step # "processing" => timers = 0 /\ ~ENABLED ProgressTick

-----------------------------------------------------------------------------
(* Properties of the rows the date scan reads *)

\* the row whose cell gave the header of a column: the first one that gives a day
HeaderSourceRow(col) == FirstGivingRow(col)

\* C20: every date header comes from a cell in a row at or above the header row; a
\* number in a data row below it, such as hours of 8 in a column without a date
\* header, never makes a date column.
C20_DatesFromHeaderRows ==
  LocateDone =>
    \A i \in 1..Len(dateHeaders) :
      /\ GivingRows(dateHeaders[i].col) # {}
      /\ HeaderSourceRow(dateHeaders[i].col) <= headerRowIndex

-----------------------------------------------------------------------------
(* Properties of the rows skipped for their category *)

\* the step reads a data row whose category cell holds none of the four codes
SkipsForCategory == pc = "rows" /\ CategoryTextAt(rowNum) \notin Categories

\* such a step adds no hours and creates no worker, and still takes the name of a
\* non-blank name cell and the gender of a gender cell that holds nam or yeo
SkippedRowStep ==
  SkipsForCategory =>
    /\ workers' = workers /\ workerOrder' = workerOrder
    /\ currentName' = IF NameTextAt(rowNum) # <<>> THEN NameTextAt(rowNum) ELSE currentName
    /\ currentGender' = IF GenderTextAt(rowNum) \in {Male, Female}
                          THEN GenderTextAt(rowNum) ELSE currentGender

\* a row read right after such a row, with a blank name cell or a gender cell
\* that is not nam or yeo, has the name or the gender the skipped row left
FollowsSkippedRow ==
  \A k \in 2..Len(attributed) :
    LET r == attributed[k].row
        q == attributed[k - 1].row
    IN  q = r - 1 /\ CategoryTextAt(q) \notin Categories =>
          /\ attributed[k - 1].worker = 0 /\ attributed[k - 1].key = <<>>
          /\ NameTextAt(q) # <<>> /\ NameTextAt(r) = <<>> =>
               attributed[k].name = NameTextAt(q)
          /\ GenderTextAt(q) \in {Male, Female} /\ GenderTextAt(r) \notin {Male, Female} =>
               attributed[k].gender = GenderTextAt(q)
          /\ CategoryTextAt(r) \in Categories /\ attributed[k].name # <<>> =>
               /\ attributed[k].key = WorkerKey(attributed[k].gender, attributed[k].name)
               /\ attributed[k].worker \in 1..Len(workers)
               /\ workers[attributed[k].worker].name = attributed[k].name
               /\ workers[attributed[k].worker].gender = attributed[k].gender

\* C21: a data row skipped because its category cell is not one of the four codes
\* adds no hours and creates no worker, but its non-blank name cell and its gender
\* cell (when nam or yeo) replace the name and gender carried forward, so the rows
\* that follow with blank name and gender cells are attributed to the name and
\* gender of the skipped row.
C21_SkippedRowCarries ==
  /\ [][SkippedRowStep]_vars
  /\ []FollowsSkippedRow

\* the woman Lee appears only in a row skipped for its category; the next row, with
\* blank name and gender cells, is hers and makes her the second worker
C21_Witness ==
  /\ pc = "done" /\ Len(workers) = 2
  /\ \E k \in 2..Len(attributed) :
       LET r == attributed[k].row
       IN  /\ CategoryTextAt(r - 1) \notin Categories
           /\ NameTextAt(r - 1) = Lee /\ GenderTextAt(r - 1) = Female
           /\ attributed[k - 1].worker = 0
           /\ NameTextAt(r) = <<>> /\ GenderTextAt(r) = <<>>
           /\ attributed[k].key = WorkerKey(Female, Lee)
           /\ attributed[k].worker = 2
           /\ workers[1].name = Kim /\ workers[1].gender = Male
           /\ workers[2].name = Lee /\ workers[2].gender = Female

====
